---- MODULE Spec2Model ----
(***************************************************************************)
(* Model of the MailSystem API (src/main.py): the access gate in front of  *)
(* the mail-send action (verify_api_key, verify_access), the allowlist     *)
(* matcher (verify_ip_address), the client IP resolution (get_client_ip),  *)
(* the documentation middleware (DocsAccessMiddleware.dispatch) and the    *)
(* mail relay (send_email).                                                *)
(*                                                                         *)
(* Python str values are TLA+ strings; Optional[str] is a tuple of length  *)
(* 0 (None) or 1.  Accented letters of the source's messages are written   *)
(* without the accent.                                                     *)
(***************************************************************************)
EXTENDS Integers, Sequences, FiniteSets, TLC

(***************************************************************************)
(* Python str helpers                                                      *)
(***************************************************************************)
None == <<>>

Some(s) == <<s>>

\* Python truthiness of an Optional[str]: None and "" are falsy
Truthy(o) == o # None /\ o[1] # ""

CharAt(s, i) == SubSeq(s, i, i)

\* str.startswith
startswith(s, p) == Len(s) >= Len(p) /\ SubSeq(s, 1, Len(p)) = p

\* `ch in s` for a one-character ch
HasChar(s, ch) == \E i \in 1..Len(s) : CharAt(s, i) = ch

Whitespace == {" ", "\t"}

RECURSIVE lstrip(_)
lstrip(s) == IF Len(s) > 0 /\ CharAt(s, 1) \in Whitespace THEN lstrip(Tail(s)) ELSE s

RECURSIVE rstrip(_)
rstrip(s) ==
    IF Len(s) > 0 /\ CharAt(s, Len(s)) \in Whitespace
    THEN rstrip(SubSeq(s, 1, Len(s) - 1))
    ELSE s

\* str.strip()
strip(s) == rstrip(lstrip(s))

\* index of the first occurrence of the one-character sep in s at or after
\* position i, 0 when absent
RECURSIVE IndexFrom(_, _, _)
IndexFrom(s, sep, i) ==
    IF i > Len(s) THEN 0
    ELSE IF CharAt(s, i) = sep THEN i ELSE IndexFrom(s, sep, i + 1)

FirstIndex(s, sep) == IndexFrom(s, sep, 1)

\* str.split(sep) for a one-character sep: a non-empty sequence of strings
RECURSIVE split(_, _)
split(s, sep) ==
    LET i == FirstIndex(s, sep) IN
    IF i = 0 THEN <<s>>
    ELSE <<SubSeq(s, 1, i - 1)>> \o split(SubSeq(s, i + 1, Len(s)), sep)

Digits == {"0", "1", "2", "3", "4", "5", "6", "7", "8", "9"}

HexDigits == Digits \cup {"a", "b", "c", "d", "e", "f", "A", "B", "C", "D", "E", "F"}

HexVal(c) ==
    CASE c = "0" -> 0 [] c = "1" -> 1 [] c = "2" -> 2 [] c = "3" -> 3
      [] c = "4" -> 4 [] c = "5" -> 5 [] c = "6" -> 6 [] c = "7" -> 7
      [] c = "8" -> 8 [] c = "9" -> 9
      [] c \in {"a", "A"} -> 10 [] c \in {"b", "B"} -> 11
      [] c \in {"c", "C"} -> 12 [] c \in {"d", "D"} -> 13
      [] c \in {"e", "E"} -> 14 [] c \in {"f", "F"} -> 15

AllIn(s, chars) == \A i \in 1..Len(s) : CharAt(s, i) \in chars

\* int(s, base) of a string of digits of that base
RECURSIVE ParseInt(_, _)
ParseInt(s, base) ==
    IF Len(s) = 0 THEN 0
    ELSE ParseInt(SubSeq(s, 1, Len(s) - 1), base) * base + HexVal(CharAt(s, Len(s)))

(***************************************************************************)
(* ipaddress (standard library), as far as main.py uses it.  An address is *)
(* [ok, version, octets]: octets is the packed big-endian form (4 or 16    *)
(* octets), so that int(a) <= int(b) is the lexicographic order on octets. *)
(* Textual forms covered: dotted-quad IPv4; IPv6 written as "::" followed  *)
(* by 0..7 hexadecimal groups; networks written address/prefixlen.         *)
(***************************************************************************)
Invalid == [ok |-> FALSE, version |-> 0, octets |-> <<>>]

\* IPv4Address._parse_octet
ValidOctet(o) ==
    /\ Len(o) >= 1
    /\ Len(o) <= 3
    /\ AllIn(o, Digits)
    /\ (Len(o) > 1 => CharAt(o, 1) # "0")
    /\ ParseInt(o, 10) <= 255

IPv4Address(s) ==
    LET parts == split(s, ".") IN
    IF Len(parts) = 4 /\ \A i \in 1..4 : ValidOctet(parts[i])
    THEN [ok |-> TRUE, version |-> 4,
          octets |-> [i \in 1..4 |-> ParseInt(parts[i], 10)]]
    ELSE Invalid

ValidHextet(g) == Len(g) >= 1 /\ Len(g) <= 4 /\ AllIn(g, HexDigits)

IPv6Address(s) ==
    IF ~startswith(s, "::") THEN Invalid
    ELSE LET rest == SubSeq(s, 3, Len(s))
             groups == IF rest = "" THEN <<>> ELSE split(rest, ":")
             n == Len(groups)
         IN  IF n <= 7 /\ \A i \in 1..n : ValidHextet(groups[i])
             THEN [ok |-> TRUE, version |-> 6,
                   octets |-> [k \in 1..16 |->
                       LET g == (k + 1) \div 2 - (8 - n) IN
                       IF g < 1 THEN 0
                       ELSE IF k % 2 = 1 THEN ParseInt(groups[g], 16) \div 256
                            ELSE ParseInt(groups[g], 16) % 256]]
             ELSE Invalid

\* the first of the two parses that succeeds
FirstValid(v4, v6) == IF v4.ok THEN v4 ELSE v6

\* ipaddress.ip_address: IPv4 first, then IPv6, else ValueError (ok = FALSE)
ip_address(s) == FirstValid(IPv4Address(s), IPv6Address(s))

RECURSIVE Pow2(_)
Pow2(n) == IF n = 0 THEN 1 ELSE 2 * Pow2(n - 1)

\* number of netmask bits that fall into octet i (1-based) for prefix length p
MaskBits(p, i) ==
    LET b == p - 8 * (i - 1) IN IF b < 0 THEN 0 ELSE IF b > 8 THEN 8 ELSE b

\* octets & netmask
AndNetmask(octets, p) ==
    [i \in 1..Len(octets) |-> octets[i] - (octets[i] % Pow2(8 - MaskBits(p, i)))]

\* ipaddress.ip_network(s, strict=False): [ok, version, network_address, prefixlen]
InvalidNet == [ok |-> FALSE, version |-> 0, network_address |-> <<>>, prefixlen |-> 0]

\* _BaseV4._make_netmask / _BaseV6._make_netmask and the network address of
\* the parsed address a under the prefix length written pstr
MakeNetwork(a, pstr) ==
    IF /\ a.ok
       /\ Len(pstr) >= 1
       /\ AllIn(pstr, Digits)
       /\ ParseInt(pstr, 10) <= (IF a.version = 4 THEN 32 ELSE 128)
    THEN [ok |-> TRUE, version |-> a.version,
          network_address |-> AndNetmask(a.octets, ParseInt(pstr, 10)),
          prefixlen |-> ParseInt(pstr, 10)]
    ELSE InvalidNet

\* _split_addr_prefix: exactly one "/"
NetworkFromParts(parts) ==
    IF Len(parts) # 2 THEN InvalidNet
    ELSE MakeNetwork(ip_address(parts[1]), parts[2])

ip_network(s) == NetworkFromParts(split(s, "/"))

\* containment that compares the address with the network address unmasked
NetworkContains_Unmasked(net, addr) ==
    /\ net.version = addr.version
    /\ addr.octets = net.network_address

\* _BaseNetwork.__contains__: False across versions, else
\* address & netmask == network_address
NetworkContains(net, addr) ==
    /\ net.version = addr.version
    /\ AndNetmask(addr.octets, net.prefixlen) = net.network_address

(***************************************************************************)
(* Configuration read from the environment                                 *)
(***************************************************************************)
\* [x for x in xs if x] after stripping every element
RECURSIVE StripNonEmpty(_)
StripNonEmpty(xs) ==
    IF xs = <<>> THEN <<>>
    ELSE IF strip(Head(xs)) # "" THEN <<strip(Head(xs))>> \o StripNonEmpty(Tail(xs))
         ELSE StripNonEmpty(Tail(xs))

\* os.getenv('ALLOWED_IPS', ''): split on commas, strip, drop empty items
get_allowed_ips(env) ==
    LET allowed_ips_str == IF env.ALLOWED_IPS = None THEN "" ELSE env.ALLOWED_IPS[1] IN
    IF allowed_ips_str = "" THEN <<>>
    ELSE StripNonEmpty(split(allowed_ips_str, ","))

\* os.getenv('API_KEY'): Optional[str]
get_api_key(env) == env.API_KEY

(***************************************************************************)
(* verify_ip_address: the allowlist matcher                                *)
(***************************************************************************)
LocalhostNames == {"127.0.0.1", "::1", "localhost"}

\* lines 103-105: only the candidate is normalised
NormalizeLocalhost(client_ip) ==
    IF client_ip \in LocalhostNames THEN "127.0.0.1" ELSE client_ip

\* the body of the loop for one entry: "match" (return True), "nomatch"
\* (next entry) or "ValueError" (warning, continue).  ip_address(client_ip)
\* is evaluated before ip_network(allowed_ip); either may raise.
\* line 112: `address in network`, either constructor may raise ValueError
CidrOutcome(address, network) ==
    IF ~address.ok \/ ~network.ok THEN "ValueError"
    ELSE IF NetworkContains(network, address) THEN "match" ELSE "nomatch"

MatchEntry(client_ip, allowed_ip) ==
    IF HasChar(allowed_ip, "/")
    THEN CidrOutcome(ip_address(client_ip), ip_network(allowed_ip))
    ELSE IF client_ip = allowed_ip THEN "match" ELSE "nomatch"

\* a loop that gives up after the first entry
MatchLoop_FirstOnly(client_ip, allowed_ips) ==
    IF allowed_ips = <<>> THEN <<>>
    ELSE <<MatchEntry(client_ip, Head(allowed_ips))>>

\* the for loop: the outcomes of the entries visited, stopping at the first match
RECURSIVE MatchLoop(_, _)
RECURSIVE LoopStep(_, _, _)
\* one iteration with outcome o: return True on a match, else go on with rest
LoopStep(o, client_ip, rest) ==
    IF o = "match" THEN <<o>> ELSE <<o>> \o MatchLoop(client_ip, rest)

MatchLoop(client_ip, allowed_ips) ==
    IF allowed_ips = <<>> THEN <<>>
    ELSE LoopStep(MatchEntry(client_ip, Head(allowed_ips)), client_ip, Tail(allowed_ips))

\* the loop returned True iff it ended on a match
LoopResult(outcomes) ==
    [ret |-> \E i \in 1..Len(outcomes) : outcomes[i] = "match", outcomes |-> outcomes]

\* lines 98-123: an empty allowlist allows every candidate
MatchAgainst(client_ip, allowed_ips) ==
    IF allowed_ips = <<>> THEN [ret |-> TRUE, outcomes |-> <<>>]
    ELSE LoopResult(MatchLoop(NormalizeLocalhost(client_ip), allowed_ips))

\* [ret, outcomes]: the returned bool and the per-entry outcomes of the loop
verify_ip_address(client_ip, env) == MatchAgainst(client_ip, get_allowed_ips(env))

(***************************************************************************)
(* The access gate: verify_api_key, verify_access, get_client_ip and the   *)
(* documentation middleware                                                *)
(***************************************************************************)
InSeq(x, xs) == \E i \in 1..Len(xs) : xs[i] = x

NoHeaders == {}

\* a dependency or handler returning value
Return(value) ==
    [raised |-> FALSE, value |-> value, status_code |-> 0, detail |-> "",
     headers |-> NoHeaders]

\* raise HTTPException(status_code, detail, headers)
HTTPException(status_code, detail, headers) ==
    [raised |-> TRUE, value |-> "", status_code |-> status_code, detail |-> detail,
     headers |-> headers]

Challenge == {<<"WWW-Authenticate", "ApiKey">>}

\* verify_api_key that demands a key also when none is configured
verify_api_key_Required(api_key, env) ==
    LET expected_api_key == get_api_key(env) IN
    IF ~Truthy(api_key)
    THEN HTTPException(401,
           "API Key requerida. Proporciona la API Key en el header X-API-Key",
           Challenge)
    ELSE IF Truthy(expected_api_key) /\ api_key[1] # expected_api_key[1]
         THEN HTTPException(401, "API Key invalida", Challenge)
         ELSE Return(api_key[1])

\* api_key is the X-API-Key header as APIKeyHeader(auto_error=False) gives it
verify_api_key(api_key, env) ==
    LET expected_api_key == get_api_key(env) IN
    IF ~Truthy(expected_api_key) THEN Return("no-key-required")
    ELSE IF ~Truthy(api_key)
         THEN HTTPException(401,
                "API Key requerida. Proporciona la API Key en el header X-API-Key",
                Challenge)
         ELSE IF api_key[1] # expected_api_key[1]
              THEN HTTPException(401, "API Key invalida", Challenge)
              ELSE Return(api_key[1])

\* str.startswith("172.") or "192.168." or "10."
PrivatePrefix(client_ip) ==
    \/ startswith(client_ip, "172.")
    \/ startswith(client_ip, "192.168.")
    \/ startswith(client_ip, "10.")

\* an inline copy that does not trim the header values
ResolveClientIp_NoStrip(request) ==
    LET peer == IF request.client # None THEN request.client[1] ELSE "unknown"
        forwarded == IF Truthy(request.x_forwarded_for)
                     THEN split(request.x_forwarded_for[1], ",")[1]
                     ELSE peer
    IN  IF Truthy(request.x_real_ip) THEN request.x_real_ip[1] ELSE forwarded

\* lines 188-200 of verify_access: the inline copy of the resolution
ResolveClientIp(request) ==
    LET peer == IF request.client # None THEN request.client[1] ELSE "unknown"
        forwarded == IF Truthy(request.x_forwarded_for)
                     THEN strip(split(request.x_forwarded_for[1], ",")[1])
                     ELSE peer
    IN  IF Truthy(request.x_real_ip) THEN strip(request.x_real_ip[1]) ELSE forwarded

\* get_client_ip with X-Forwarded-For taking precedence over X-Real-IP
get_client_ip_ForwardedFirst(request) ==
    LET client_ip == IF request.client # None THEN request.client[1] ELSE "unknown"
        after_real == IF Truthy(request.x_real_ip) THEN strip(request.x_real_ip[1])
                      ELSE client_ip
    IN  IF Truthy(request.x_forwarded_for)
        THEN strip(split(request.x_forwarded_for[1], ",")[1])
        ELSE after_real

\* get_client_ip: the copy used by the middleware
get_client_ip(request) ==
    LET client_ip == IF request.client # None THEN request.client[1] ELSE "unknown"
        forwarded_for == request.x_forwarded_for
        real_ip == request.x_real_ip
        after_forwarded == IF Truthy(forwarded_for)
                           THEN strip(split(forwarded_for[1], ",")[1])
                           ELSE client_ip
    IN  IF Truthy(real_ip) THEN strip(real_ip[1]) ELSE after_forwarded

ForbiddenDetail(client_ip) ==
    "Acceso denegado. Tu IP (" \o client_ip \o ") no esta en la lista de IPs permitidas."

\* verify_access without the private-network exception
\* lines 215-222: the matcher decides for client_ip
CheckIp(client_ip, api_key, env) ==
    [result |-> IF ~verify_ip_address(client_ip, env).ret
                THEN HTTPException(403, ForbiddenDetail(client_ip), NoHeaders)
                ELSE Return(api_key),
     client_ip |-> client_ip, matcher |-> TRUE]

verify_access_NoException(request, api_key, env) ==
    CheckIp(ResolveClientIp(request), api_key, env)

\* verify_access after its dependency verify_api_key returned api_key.
\* [result, client_ip, matcher]: matcher tells whether verify_ip_address ran.
\* lines 202-224: the private-network exception, then the matcher
CheckAccess(client_ip, api_key, env) ==
    IF InSeq("127.0.0.1", get_allowed_ips(env)) /\ PrivatePrefix(client_ip)
    THEN [result |-> Return(api_key), client_ip |-> client_ip, matcher |-> FALSE]
    ELSE CheckIp(client_ip, api_key, env)

verify_access(request, api_key, env) ==
    CheckAccess(ResolveClientIp(request), api_key, env)

\* the dependencies resolved in the other order: the IP check decides first
IpFirst(a, k) ==
    [result |-> IF a.result.raised THEN a.result ELSE k,
     client_ip |-> a.client_ip, matcher |-> a.matcher, ip_checked |-> TRUE]

AccessDependency_IpFirst(request, env) ==
    IpFirst(verify_access(request, "", env), verify_api_key(request.x_api_key, env))

\* Depends(verify_access) with its sub-dependency Depends(verify_api_key):
\* the key check runs first and its HTTPException ends the resolution
AccessChecked(a) ==
    [result |-> a.result, client_ip |-> a.client_ip, matcher |-> a.matcher,
     ip_checked |-> TRUE]

\* k is what verify_api_key gave: its exception, or the api_key verify_access gets
AfterKeyCheck(k, request, env) ==
    IF k.raised
    THEN [result |-> k, client_ip |-> "", matcher |-> FALSE, ip_checked |-> FALSE]
    ELSE AccessChecked(verify_access(request, k.value, env))

AccessDependency(request, env) ==
    AfterKeyCheck(verify_api_key(request.x_api_key, env), request, env)

docs_paths == <<"/docs", "/redoc", "/openapi.json">>

IsDocsPath(path) == \E i \in 1..Len(docs_paths) : startswith(path, docs_paths[i])

DocsForbiddenDetail(client_ip) ==
    "Acceso denegado. Tu IP (" \o client_ip
        \o ") no esta autorizada para acceder a la documentacion."

\* call_next(request): the middleware lets the request through
PassThrough(checked, client_ip, matcher) ==
    [blocked |-> FALSE, status_code |-> 0, detail |-> "", checked |-> checked,
     client_ip |-> client_ip, matcher |-> matcher]

\* lines 291-304: the matcher decides for client_ip
DocsCheckIp(client_ip, env) ==
    IF ~verify_ip_address(client_ip, env).ret
    THEN [blocked |-> TRUE, status_code |-> 403,
          detail |-> DocsForbiddenDetail(client_ip), checked |-> TRUE,
          client_ip |-> client_ip, matcher |-> TRUE]
    ELSE PassThrough(TRUE, client_ip, TRUE)

\* dispatch without the private-network exception
dispatch_NoPrivate(request, env) ==
    IF ~IsDocsPath(request.path) THEN PassThrough(FALSE, "", FALSE)
    ELSE DocsCheckIp(get_client_ip(request), env)

\* DocsAccessMiddleware.dispatch up to call_next:
\* [blocked, status_code, detail, checked, client_ip, matcher]
\* lines 271-304: no allowlist, the localhost exception, then the matcher
DocsCheckAccess(client_ip, allowed_ips, env) ==
    IF allowed_ips = <<>> THEN PassThrough(TRUE, client_ip, FALSE)
    ELSE IF /\ InSeq("127.0.0.1", allowed_ips)
            /\ (client_ip \in LocalhostNames \/ PrivatePrefix(client_ip))
         THEN PassThrough(TRUE, client_ip, FALSE)
         ELSE DocsCheckIp(client_ip, env)

dispatch(request, env) ==
    IF ~IsDocsPath(request.path) THEN PassThrough(FALSE, "", FALSE)
    ELSE DocsCheckAccess(get_client_ip(request), get_allowed_ips(env), env)

(***************************************************************************)
(* Request schema (pydantic) and the mail relay                            *)
(***************************************************************************)
MaxSubjectLen == 500

\* EmailStr, as far as the inputs of this model go: local@domain with a
\* dotted domain and no whitespace
EmailStr(s) ==
    LET parts == split(s, "@") IN
    /\ Len(parts) = 2
    /\ parts[1] # ""
    /\ ~HasChar(s, " ")
    /\ LET labels == split(parts[2], ".") IN
         Len(labels) >= 2 /\ \A i \in 1..Len(labels) : labels[i] # ""

\* the schema without min_items=1 and without validate_recipients
EmailRequest_AnyRecipients(body) ==
    /\ Len(body.subject) >= 1
    /\ Len(body.subject) <= MaxSubjectLen
    /\ Len(body.body) >= 1
    /\ body.recipients # None
    /\ \A i \in 1..Len(body.recipients[1]) : EmailStr(body.recipients[1][i])

\* EmailRequest(**body): TRUE when the body passes validation.  recipients
\* is None when the field is absent, else Some(list).
EmailRequest(body) ==
    /\ Len(body.subject) >= 1
    /\ Len(body.subject) <= MaxSubjectLen
    /\ Len(body.body) >= 1
    /\ body.recipients # None
    /\ Len(body.recipients[1]) >= 1
    /\ \A i \in 1..Len(body.recipients[1]) : EmailStr(body.recipients[1][i])

LowerChar(c) ==
    CASE c = "A" -> "a" [] c = "B" -> "b" [] c = "C" -> "c" [] c = "D" -> "d"
      [] c = "E" -> "e" [] c = "F" -> "f" [] c = "G" -> "g" [] c = "H" -> "h"
      [] c = "I" -> "i" [] c = "J" -> "j" [] c = "K" -> "k" [] c = "L" -> "l"
      [] c = "M" -> "m" [] c = "N" -> "n" [] c = "O" -> "o" [] c = "P" -> "p"
      [] c = "Q" -> "q" [] c = "R" -> "r" [] c = "S" -> "s" [] c = "T" -> "t"
      [] c = "U" -> "u" [] c = "V" -> "v" [] c = "W" -> "w" [] c = "X" -> "x"
      [] c = "Y" -> "y" [] c = "Z" -> "z" [] OTHER -> c

\* str.lower()
RECURSIVE lower(_)
lower(s) == IF s = "" THEN "" ELSE LowerChar(CharAt(s, 1)) \o lower(Tail(s))

\* sep.join(xs)
RECURSIVE join(_, _)
join(sep, xs) ==
    IF xs = <<>> THEN ""
    ELSE IF Len(xs) = 1 THEN xs[1]
         ELSE xs[1] \o sep \o join(sep, Tail(xs))

getenv(env, name, default) == IF env[name] = None THEN default ELSE env[name][1]

ImplicitTlsPort == 465

\* [raised, message, config]: raised is a ValueError, from int() or from the
\* check of the required variables
get_smtp_config(env) ==
    LET port_str == strip(getenv(env, "SMTP_PORT", "587"))
        port_ok == port_str # "" /\ AllIn(port_str, Digits)
        smtp_port == IF port_ok THEN ParseInt(port_str, 10) ELSE 0
        config == [smtp_server |-> env.SMTP_SERVER,
                   smtp_port |-> smtp_port,
                   smtp_user |-> env.SMTP_USER,
                   smtp_password |-> env.SMTP_PASSWORD,
                   smtp_from_email |-> env.SMTP_FROM_EMAIL,
                   smtp_use_tls |-> lower(getenv(env, "SMTP_USE_TLS", "true")) = "true",
                   smtp_use_ssl |-> smtp_port = ImplicitTlsPort]
        required_vars == <<"smtp_server", "smtp_user", "smtp_password", "smtp_from_email">>
        missing_vars == SelectSeq(required_vars, LAMBDA v : ~Truthy(config[v]))
    IN  IF ~port_ok
        THEN [raised |-> TRUE,
              message |-> "invalid literal for int() with base 10: '"
                              \o getenv(env, "SMTP_PORT", "587") \o "'",
              config |-> config]
        ELSE IF missing_vars # <<>>
             THEN [raised |-> TRUE,
                   message |-> "Variables de entorno faltantes: "
                                \o join(", ", missing_vars)
                                \o ". Por favor, configura el archivo .env",
                   config |-> config]
             ELSE [raised |-> FALSE, message |-> "", config |-> config]

B64Alphabet == "ABCDEFGHIJKLMNOPQRSTUVWXYZabcdefghijklmnopqrstuvwxyz0123456789+/"

B64Chars == {CharAt(B64Alphabet, i) : i \in 1..64}

\* binascii.a2b_base64 (non-strict, as base64.b64decode calls it): TRUE when
\* the text decodes.  Characters outside the alphabet are skipped, a complete
\* padding ends the input, and the data must end on a quad boundary.
RECURSIVE a2b_base64(_, _, _)
a2b_base64(s, quad_pos, pads) ==
    IF s = "" THEN quad_pos = 0
    ELSE LET c == CharAt(s, 1) IN
         IF c = "="
         THEN IF quad_pos >= 2 /\ quad_pos + pads + 1 >= 4 THEN TRUE
              ELSE a2b_base64(Tail(s), quad_pos, IF quad_pos >= 2 THEN pads + 1 ELSE pads)
         ELSE IF c \notin B64Chars THEN a2b_base64(Tail(s), quad_pos, pads)
              ELSE a2b_base64(Tail(s), (quad_pos + 1) % 4, 0)

\* number of characters of s that belong to the alphabet
RECURSIVE DataChars(_)
DataChars(s) ==
    IF s = "" THEN 0
    ELSE (IF CharAt(s, 1) \in B64Chars THEN 1 ELSE 0) + DataChars(Tail(s))

\* str(e) of the binascii.Error raised when the data do not end on a quad boundary
a2b_error(s) ==
    IF DataChars(s) % 4 = 1
    THEN "Invalid base64-encoded string: number of data characters ("
            \o ToString(DataChars(s)) \o ") cannot be 1 more than a multiple of 4"
    ELSE "Incorrect padding"

\* [raised, message]: the ValueError names the attachment
decode_base64_attachment(attachment) ==
    IF a2b_base64(attachment.content, 0, 0)
    THEN [raised |-> FALSE, message |-> ""]
    ELSE [raised |-> TRUE,
          message |-> "Error al decodificar el adjunto " \o attachment.filename
                        \o ": " \o a2b_error(attachment.content)]

\* an entry of the call record of one request: <<what, argument>>
Ev(name) == <<name, "">>

\* the attachments are decoded in order; the first failure raises
RECURSIVE DecodeAll(_)
DecodeAll(attachments) ==
    IF attachments = <<>> THEN [raised |-> FALSE, message |-> "", events |-> <<>>]
    ELSE LET d == decode_base64_attachment(Head(attachments))
             e == <<"decode_base64_attachment", Head(attachments).filename>>
         IN  IF d.raised THEN [raised |-> TRUE, message |-> d.message, events |-> <<e>>]
             ELSE LET rest == DecodeAll(Tail(attachments)) IN
                  [raised |-> rest.raised, message |-> rest.message,
                   events |-> <<e>> \o rest.events]

\* what the SMTP server and the network do to one send: the step that fails
\* ("none": nothing fails), the exception class and its text
NoFailure == [at |-> "none", exc |-> "", text |-> ""]

SmtpBehaviours ==
    { NoFailure,
      [at |-> "connect", exc |-> "Exception", text |-> "[Errno 111] Connection refused"],
      [at |-> "connect", exc |-> "SMTPException", text |-> "(421, b'Service not available')"],
      [at |-> "starttls", exc |-> "SMTPException", text |-> "STARTTLS extension not supported by server."],
      [at |-> "login", exc |-> "SMTPAuthenticationError", text |-> "(535, b'Authentication failed')"],
      [at |-> "login", exc |-> "SMTPException", text |-> "No suitable authentication method found."],
      [at |-> "send_message", exc |-> "SMTPException", text |-> "(550, b'Recipient refused')"] }

\* an exchange that issues STARTTLS on every connection
SmtpExchange_AlwaysStartTls(config, smtp) ==
    LET connect == IF config.smtp_use_ssl THEN Ev("SMTP_SSL") ELSE Ev("SMTP")
        tls == <<Ev("starttls")>>
        failed(evs) == [exc |-> smtp.exc, message |-> smtp.text, events |-> evs]
    IN  IF smtp.at = "connect" THEN failed(<<connect>>)
        ELSE IF smtp.at = "starttls" /\ tls # <<>>
             THEN failed(<<connect>> \o tls \o <<Ev("quit")>>)
        ELSE IF smtp.at = "login"
             THEN failed(<<connect>> \o tls \o <<Ev("login"), Ev("quit")>>)
        ELSE IF smtp.at = "send_message"
             THEN failed(<<connect>> \o tls \o <<Ev("login"), Ev("send_message"), Ev("quit")>>)
        ELSE [exc |-> "", message |-> "",
              events |-> <<connect>> \o tls \o <<Ev("login"), Ev("send_message"), Ev("quit")>>]

\* the `with smtplib.SMTP_SSL(...)` / `with smtplib.SMTP(...)` block:
\* [exc, message, events]
SmtpExchange(config, smtp) ==
    LET connect == IF config.smtp_use_ssl THEN Ev("SMTP_SSL") ELSE Ev("SMTP")
        tls == IF ~config.smtp_use_ssl /\ config.smtp_use_tls THEN <<Ev("starttls")>> ELSE <<>>
        failed(evs) == [exc |-> smtp.exc, message |-> smtp.text, events |-> evs]
    IN  IF smtp.at = "connect" THEN failed(<<connect>>)
        ELSE IF smtp.at = "starttls" /\ tls # <<>>
             THEN failed(<<connect>> \o tls \o <<Ev("quit")>>)
        ELSE IF smtp.at = "login"
             THEN failed(<<connect>> \o tls \o <<Ev("login"), Ev("quit")>>)
        ELSE IF smtp.at = "send_message"
             THEN failed(<<connect>> \o tls \o <<Ev("login"), Ev("send_message"), Ev("quit")>>)
        ELSE [exc |-> "", message |-> "",
              events |-> <<connect>> \o tls \o <<Ev("login"), Ev("send_message"), Ev("quit")>>]

\* send_email: [exc, message, events, recipients].  exc = "" is the normal
\* return; every exception is logged and raised again (lines 626-628).
\* lines 626-628: logger.error, then raise
LogAndRaise(exc, message, evs, recipients) ==
    [exc |-> exc, message |-> message,
     events |-> evs \o << <<"logger.error", "Error al enviar correo: " \o message>> >>,
     recipients |-> recipients]

\* the SMTP block ended as ex, after the events evs
AfterExchange(ex, evs, recipients) ==
    IF ex.exc # "" THEN LogAndRaise(ex.exc, ex.message, evs \o ex.events, recipients)
    ELSE [exc |-> "",
          message |-> "Correo enviado exitosamente a " \o ToString(Len(recipients))
                        \o " destinatario(s)",
          events |-> evs \o ex.events,
          recipients |-> recipients]

\* the body of the try block: cfg is what get_smtp_config gave, dec what the
\* decoding of the attachments gives
SendWith(cfg, dec, recipients, smtp) ==
    IF cfg.raised
    THEN LogAndRaise("ValueError", cfg.message, <<Ev("get_smtp_config")>>, recipients)
    ELSE IF dec.raised
         THEN LogAndRaise("ValueError", dec.message,
                          <<Ev("get_smtp_config")>> \o dec.events, recipients)
         ELSE AfterExchange(SmtpExchange(cfg.config, smtp),
                            <<Ev("get_smtp_config")>> \o dec.events, recipients)

send_email(subject, body, recipients, attachments, is_html, env, smtp) ==
    SendWith(get_smtp_config(env), DecodeAll(attachments), recipients, smtp)

Response(status_code, detail, headers) ==
    [status_code |-> status_code, detail |-> detail, headers |-> headers]

\* the try/except of send_email_endpoint around the call that ended as r
EndpointResponse(r) ==
    LET evs == <<Ev("send_email")>> \o r.events
    IN  CASE r.exc = "" ->
               [response |-> Response(200, r.message, NoHeaders), events |-> evs]
          [] r.exc = "ValueError" ->
               [response |-> Response(400, r.message, NoHeaders), events |-> evs]
          [] r.exc = "SMTPAuthenticationError" ->
               [response |-> Response(401,
                    "Error de autenticacion SMTP. Verifica las credenciales.", NoHeaders),
                events |-> evs \o << <<"logger.error",
                    "Error de autenticacion SMTP: " \o r.message>> >>]
          [] r.exc = "SMTPException" ->
               [response |-> Response(502,
                    "Error al comunicarse con el servidor SMTP: " \o r.message, NoHeaders),
                events |-> evs \o << <<"logger.error", "Error SMTP: " \o r.message>> >>]
          [] OTHER ->
               [response |-> Response(500,
                    "Error interno del servidor: " \o r.message, NoHeaders),
                events |-> evs \o << <<"logger.error", "Error inesperado: " \o r.message>> >>]

\* the body of send_email_endpoint, once the dependency and the schema let
\* the request in: [response, events]
send_email_endpoint(email_request, env, smtp) ==
    EndpointResponse(send_email(email_request.subject, email_request.body,
                                email_request.recipients[1], email_request.attachments,
                                email_request.is_html, env, smtp))

(***************************************************************************)
(* State                                                                   *)
(***************************************************************************)
VARIABLES
    environ,    \* the process environment: the configuration, never written
    request,    \* the request being handled
    response,   \* the response produced for it
    events,     \* the calls made while handling it, in order
    gate,       \* the decision of the access gate for it
    pc,         \* "idle", "received" or "responded"
    probe       \* a direct call of verify_ip_address and what it returned

vars == <<environ, request, response, events, gate, pc, probe>>

(***************************************************************************)
(* Bounds and input sets                                                   *)
(***************************************************************************)
\* largest number of comma-separated items of ALLOWED_IPS
MaxAllowed == 2

\* the same, for the direct calls of the matcher
MaxEntries == 2

SeqsUpTo(S, n) == UNION {[1..k -> S] : k \in 0..n}

AllowlistSettings(items, n) ==
    {None} \cup {Some(join(",", xs)) : xs \in SeqsUpTo(items, n)}

ApiKeySettings == {None, Some(""), Some("secret")}

GateItems == {"127.0.0.1", " 8.8.8.0/24 "}

SmtpEnv(api_key, allowed) ==
    [API_KEY |-> api_key, ALLOWED_IPS |-> allowed,
     SMTP_SERVER |-> Some("smtp.example.com"), SMTP_PORT |-> None,
     SMTP_USER |-> Some("mailer"), SMTP_PASSWORD |-> Some("hunter2"),
     SMTP_FROM_EMAIL |-> Some("noreply@example.com"), SMTP_USE_TLS |-> None]

GateEnvironments ==
    {SmtpEnv(k, a) : k \in ApiKeySettings, a \in AllowlistSettings(GateItems, MaxAllowed)}

MatcherItems ==
    {"127.0.0.1", "localhost", "::1", "8.8.8.77/24", "127.0.0.0/8", "::/96",
     "8.8.8.0/99", "bogus", "unknown", " "}

MatcherCandidates ==
    {"127.0.0.1", "localhost", "::1", "8.8.8.8", "8.8.9.8", "::808:808", "::2",
     "bogus", "unknown", "10.evil", "127.9.9.9", ""}

MatcherEnvironments ==
    {SmtpEnv(None, a) : a \in AllowlistSettings(MatcherItems, MaxEntries)}

ApiKeyHeaders == {None, Some(""), Some("secret"), Some("wrong")}

RealIpHeaders == {None, Some(""), Some(" 8.8.8.8 "), Some("10.0.0.9"), Some("10.evil")}

ForwardedHeaders == {None, Some(""), Some("1.2.3.4, 10.0.0.9"), Some(" ::1 ,8.8.8.8")}

Peers == {None, Some("127.0.0.1"), Some("172.17.0.3"), Some("192.168.1.50"),
          Some("172.32.0.1")}

Body(recipients, attachments) ==
    [subject |-> "Hola", body |-> "Texto", recipients |-> recipients,
     attachments |-> attachments, is_html |-> FALSE]

NoBody == Body(None, <<>>)

Bodies ==
    { Body(Some(<<"ana@example.com">>), <<>>),
      Body(Some(<<>>), <<>>),
      Body(None, <<>>),
      Body(Some(<<"ana@example.com">>),
           << [filename |-> "a.txt", content |-> "%%%not-base64%%%", content_type |-> None] >>) }

Req(path, key, real_ip, forwarded, peer, body) ==
    [path |-> path, x_api_key |-> key, x_real_ip |-> real_ip,
     x_forwarded_for |-> forwarded, client |-> peer, body |-> body]

\* paths requested with every combination of headers, peer and body
GatedPaths == {"/docs", "/send-email"}

\* paths requested without headers, from every peer
PeerOnlyPaths == {"/redoc", "/openapi.json", "/docs/oauth2-redirect", "/", "/health"}

Requests ==
    {Req(p, k, r, f, c, IF p = "/send-email" THEN b ELSE NoBody) :
        p \in GatedPaths, k \in ApiKeyHeaders, r \in RealIpHeaders,
        f \in ForwardedHeaders, c \in Peers, b \in Bodies}
    \cup {Req(p, None, None, None, c, NoBody) : p \in PeerOnlyPaths, c \in Peers}

NoRequest == Req("", None, None, None, None, NoBody)

NoResponse == Response(0, "", NoHeaders)

NoGate == [site |-> "", outcome |-> "", client_ip |-> "", matcher |-> FALSE]

NoProbe == [called |-> FALSE, client_ip |-> "", ret |-> FALSE, outcomes |-> <<>>]

(***************************************************************************)
(* Actions                                                                 *)
(***************************************************************************)
Init ==
    /\ environ \in GateEnvironments
    /\ request = NoRequest
    /\ response = NoResponse
    /\ events = <<>>
    /\ gate = NoGate
    /\ pc = "idle"
    /\ probe = NoProbe

\* a request arrives
ReceiveRequest ==
    /\ pc = "idle"
    /\ request' \in Requests
    /\ pc' = "received"
    /\ UNCHANGED <<environ, response, events, gate, probe>>

\* the calls of the middleware for one request
DispatchEvents(mw) ==
    <<Ev("dispatch")>>
        \o (IF mw.checked THEN << <<"get_client_ip", mw.client_ip>> >> ELSE <<>>)
        \o (IF mw.matcher THEN << <<"verify_ip_address", mw.client_ip>> >> ELSE <<>>)

\* GET /docs, /redoc, /openapi.json: the middleware, then the page
GetDocs ==
    /\ pc = "received"
    /\ IsDocsPath(request.path)
    /\ \E mw \in {dispatch(request, environ)} :
         /\ response' = IF mw.blocked
                        THEN Response(mw.status_code, mw.detail, NoHeaders)
                        ELSE Response(200, "documentation", NoHeaders)
         /\ events' = DispatchEvents(mw)
         /\ gate' = [site |-> "dispatch",
                     outcome |-> IF mw.blocked THEN "Forbidden" ELSE "granted",
                     client_ip |-> mw.client_ip, matcher |-> mw.matcher]
    /\ pc' = "responded"
    /\ UNCHANGED <<environ, request, probe>>

GateOutcome(result) ==
    IF ~result.raised THEN "granted"
    ELSE IF result.status_code = 401 THEN "Unauthenticated" ELSE "Forbidden"

\* PostSendEmail with the endpoint run whatever the dependency decided
PostSendEmail_Ungated ==
    /\ pc = "received"
    /\ request.path = "/send-email"
    /\ \E dep \in {AccessDependency(request, environ)} :
         /\ gate' = [site |-> "verify_access", outcome |-> GateOutcome(dep.result),
                     client_ip |-> dep.client_ip, matcher |-> dep.matcher]
         /\ IF ~EmailRequest(request.body)
            THEN /\ response' = Response(422, "validation error", NoHeaders)
                 /\ events' = <<Ev("dispatch"), Ev("verify_api_key"), Ev("EmailRequest")>>
            ELSE \E smtp \in SmtpBehaviours :
                   \E ep \in {send_email_endpoint(request.body, environ, smtp)} :
                   /\ response' = ep.response
                   /\ events' = <<Ev("dispatch"), Ev("verify_api_key"), Ev("EmailRequest")>>
                                    \o ep.events
    /\ pc' = "responded"
    /\ UNCHANGED <<environ, request, probe>>

\* PostSendEmail with the body validated before the dependencies are resolved
PostSendEmail_SchemaFirst ==
    /\ pc = "received"
    /\ request.path = "/send-email"
    /\ IF ~EmailRequest(request.body)
       THEN /\ response' = Response(422, "validation error", NoHeaders)
            /\ events' = <<Ev("dispatch"), Ev("EmailRequest")>>
            /\ gate' = NoGate
       ELSE \E dep \in {AccessDependency(request, environ)} :
              /\ gate' = [site |-> "verify_access", outcome |-> GateOutcome(dep.result),
                          client_ip |-> dep.client_ip, matcher |-> dep.matcher]
              /\ IF dep.result.raised
                 THEN /\ response' = Response(dep.result.status_code, dep.result.detail,
                                              dep.result.headers)
                      /\ events' = <<Ev("dispatch"), Ev("EmailRequest"), Ev("verify_api_key")>>
                 ELSE \E smtp \in SmtpBehaviours :
                        \E ep \in {send_email_endpoint(request.body, environ, smtp)} :
                          /\ response' = ep.response
                          /\ events' = <<Ev("dispatch"), Ev("EmailRequest"),
                                         Ev("verify_api_key"), Ev("verify_access")>>
                                            \o ep.events
    /\ pc' = "responded"
    /\ UNCHANGED <<environ, request, probe>>

\* POST /send-email: the middleware lets it through, the dependencies are
\* resolved (verify_api_key, then verify_access), the body is validated and
\* the endpoint runs
PostSendEmail ==
    /\ pc = "received"
    /\ request.path = "/send-email"
    /\ \E mw \in {dispatch(request, environ)}, dep \in {AccessDependency(request, environ)} :
         LET gateEvents ==
               DispatchEvents(mw) \o <<Ev("verify_api_key")>>
               \o (IF dep.ip_checked THEN << <<"verify_access", dep.client_ip>> >> ELSE <<>>)
               \o (IF dep.matcher THEN << <<"verify_ip_address", dep.client_ip>> >> ELSE <<>>)
         IN  /\ gate' = [site |-> "verify_access", outcome |-> GateOutcome(dep.result),
                         client_ip |-> dep.client_ip, matcher |-> dep.matcher]
             /\ IF dep.result.raised
                THEN /\ response' = Response(dep.result.status_code, dep.result.detail,
                                             dep.result.headers)
                     /\ events' = gateEvents
                ELSE IF ~EmailRequest(request.body)
                     THEN /\ response' = Response(422, "validation error", NoHeaders)
                          /\ events' = gateEvents \o <<Ev("EmailRequest")>>
                     ELSE \E smtp \in SmtpBehaviours :
                            \E ep \in {send_email_endpoint(request.body, environ, smtp)} :
                              /\ response' = ep.response
                              /\ events' = gateEvents \o <<Ev("EmailRequest")>> \o ep.events
    /\ pc' = "responded"
    /\ UNCHANGED <<environ, request, probe>>

\* GET /health: no dependency
GetHealth ==
    /\ pc = "received"
    /\ request.path = "/health"
    /\ \E cfg \in {get_smtp_config(environ)} :
         response' = IF cfg.raised THEN Response(503, cfg.message, NoHeaders)
                     ELSE Response(200, "healthy", NoHeaders)
    /\ events' = <<Ev("dispatch"), Ev("get_smtp_config")>>
    /\ gate' = NoGate
    /\ pc' = "responded"
    /\ UNCHANGED <<environ, request, probe>>

\* GET /: no dependency
GetRoot ==
    /\ pc = "received"
    /\ request.path = "/"
    /\ response' = Response(200, "Bienvenido a MailSystem API", NoHeaders)
    /\ events' = <<Ev("dispatch")>>
    /\ gate' = NoGate
    /\ pc' = "responded"
    /\ UNCHANGED <<environ, request, probe>>

\* the response leaves; nothing of the request is kept
SendResponse ==
    /\ pc = "responded"
    /\ request' = NoRequest
    /\ response' = NoResponse
    /\ events' = <<>>
    /\ gate' = NoGate
    /\ pc' = "idle"
    /\ UNCHANGED <<environ, probe>>

Next ==
    \/ ReceiveRequest
    \/ GetDocs
    \/ PostSendEmail
    \/ GetHealth
    \/ GetRoot
    \/ SendResponse

Spec == Init /\ [][Next]_vars

(***************************************************************************)
(* Direct calls of the matcher, over a wider set of entries and candidates *)
(***************************************************************************)
InitMatcher ==
    /\ environ \in MatcherEnvironments
    /\ request = NoRequest
    /\ response = NoResponse
    /\ events = <<>>
    /\ gate = NoGate
    /\ pc = "idle"
    /\ probe = NoProbe

CallVerifyIpAddress ==
    /\ ~probe.called
    /\ \E client_ip \in MatcherCandidates :
         \E v \in {verify_ip_address(client_ip, environ)} :
         probe' = [called |-> TRUE, client_ip |-> client_ip, ret |-> v.ret,
                   outcomes |-> v.outcomes]
    /\ UNCHANGED <<environ, request, response, events, gate, pc>>

ReturnVerifyIpAddress ==
    /\ probe.called
    /\ probe' = NoProbe
    /\ UNCHANGED <<environ, request, response, events, gate, pc>>

NextMatcher == CallVerifyIpAddress \/ ReturnVerifyIpAddress

SpecMatcher == InitMatcher /\ [][NextMatcher]_vars

(***************************************************************************)
(* The mail-send action behind an open gate, over a wider set of SMTP      *)
(* settings and attachments                                                *)
(***************************************************************************)
\* largest number of attachments of one request
MaxAttachments == 2

Attachment(filename, content) ==
    [filename |-> filename, content |-> content, content_type |-> None]

RelayAttachments ==
    { Attachment("a.txt", "aGk="),
      Attachment("b.bin", "%%%not-base64%%%"),
      Attachment("c.bin", "%aGk="),
      Attachment("d.bin", "YQ=") }

RelayPorts == {None, Some("465"), Some("25"), Some(" 587 ")}

RelayTlsFlags == {None, Some("true"), Some("TRUE"), Some("false")}

RelayEnvironments ==
    {[SmtpEnv(None, None) EXCEPT !.SMTP_PORT = p, !.SMTP_USE_TLS = t] :
        p \in RelayPorts, t \in RelayTlsFlags}

RelayRequests ==
    {Req("/send-email", None, None, None, Some("127.0.0.1"),
         Body(Some(<<"ana@example.com">>), atts)) :
        atts \in SeqsUpTo(RelayAttachments, MaxAttachments)}

InitRelay ==
    /\ environ \in RelayEnvironments
    /\ request = NoRequest
    /\ response = NoResponse
    /\ events = <<>>
    /\ gate = NoGate
    /\ pc = "idle"
    /\ probe = NoProbe

ReceiveRelayRequest ==
    /\ pc = "idle"
    /\ request' \in RelayRequests
    /\ pc' = "received"
    /\ UNCHANGED <<environ, response, events, gate, probe>>

NextRelay ==
    \/ ReceiveRelayRequest
    \/ PostSendEmail
    \/ SendResponse

SpecRelay == InitRelay /\ [][NextRelay]_vars

(***************************************************************************)
(* Properties                                                              *)
(***************************************************************************)
Handled(path) == pc = "responded" /\ request.path = path

HandledDocs == pc = "responded" /\ IsDocsPath(request.path)

EventNames == {events[i][1] : i \in 1..Len(events)}

MailCalls == {"send_email", "get_smtp_config", "decode_base64_attachment",
              "SMTP", "SMTP_SSL", "starttls", "login", "send_message"}

KeyConfigured == environ.API_KEY # None /\ environ.API_KEY[1] # ""

\* the request presents the configured key
KeyMatches ==
    /\ request.x_api_key # None
    /\ request.x_api_key[1] # ""
    /\ request.x_api_key[1] = environ.API_KEY[1]

\* C1: no call of send_email, and no SMTP connection, login or transmission,
\* happens for a request of the mail-send action unless the access gate
\* granted that request: a request answered 401 or 403 by the gate has none.
C1_NoMailWithoutGrant ==
    (EventNames \cap MailCalls # {} /\ request.path = "/send-email")
        => /\ gate.site = "verify_access"
           /\ gate.outcome = "granted"
           /\ (KeyConfigured => KeyMatches)
           /\ "verify_access" \in EventNames

C1_Witness ==
    /\ Handled("/send-email")
    /\ KeyConfigured
    /\ get_allowed_ips(environ) # <<>>
    /\ "send_message" \in EventNames
    /\ response.status_code = 200

\* C2 as stated: with no API key configured, no request of the mail-send
\* action is denied.
C2_Original ==
    (Handled("/send-email") /\ ~KeyConfigured) => gate.outcome = "granted"

\* C2 amended: with no API key configured the key check passes for every
\* request whatever its X-API-Key header; the request is never denied with
\* Unauthenticated, goes on to the IP check and is granted or denied with
\* Forbidden by it.
C2_KeyCheckDisabled ==
    (Handled("/send-email") /\ ~KeyConfigured)
        => /\ gate.outcome \in {"granted", "Forbidden"}
           /\ <<"WWW-Authenticate", "ApiKey">> \notin response.headers
           /\ "verify_access" \in EventNames
           /\ (gate.outcome = "Forbidden" => response.status_code = 403)

C2_Witness ==
    /\ Handled("/send-email")
    /\ ~KeyConfigured
    /\ request.x_api_key = None
    /\ gate.outcome = "Forbidden"

\* C3: with an API key configured, a request of the mail-send action that
\* presents no key or another key is answered 401 with the WWW-Authenticate
\* challenge, for every client IP and allowlist: never granted, never
\* Forbidden, and the IP check is not run.
C3_BadKeyUnauthenticated ==
    (Handled("/send-email") /\ KeyConfigured /\ ~KeyMatches)
        => /\ gate.outcome = "Unauthenticated"
           /\ response.status_code = 401
           /\ <<"WWW-Authenticate", "ApiKey">> \in response.headers
           /\ EventNames \cap ({"verify_access", "verify_ip_address"} \cup MailCalls) = {}

\* a wrong key from an address the allowlist would reject
C3_Witness ==
    /\ Handled("/send-email")
    /\ KeyConfigured
    /\ request.x_api_key = Some("wrong")
    /\ get_allowed_ips(environ) = <<"127.0.0.1">>
    /\ request.x_real_ip = Some(" 8.8.8.8 ")
    /\ response.status_code = 401

\* what the gate of the mail-send action decides for a request
SendGateOutcome(req) == GateOutcome(AccessDependency(req, environ).result)

\* what the IP part of that gate decides once the key check has passed
SendIpOutcome(req) == GateOutcome(verify_access(req, "key", environ).result)

\* C4 as stated: the documentation paths are guarded by the whole gate, key
\* check included: the middleware decides as the mail-send gate does.
C4_Original ==
    HandledDocs => gate.outcome = SendGateOutcome(request)

\* C4 amended: the documentation paths are guarded by the IP part of the gate
\* only: the middleware never reads the API key, grants iff the mail-send
\* gate grants a request that passed the key check, and otherwise denies with
\* Forbidden (403) naming the client IP, never with Unauthenticated.
C4_DocsIpOnly ==
    HandledDocs
        => /\ gate.outcome = SendIpOutcome(request)
           /\ gate.outcome \in {"granted", "Forbidden"}
           /\ (gate.outcome = "Forbidden"
                 => response = Response(403, DocsForbiddenDetail(gate.client_ip), NoHeaders))
           /\ (gate.outcome = "granted" => response.status_code = 200)

\* the documentation served to a request without key although one is configured
C4_Witness ==
    /\ HandledDocs
    /\ KeyConfigured
    /\ request.x_api_key = None
    /\ get_allowed_ips(environ) # <<>>
    /\ gate.outcome = "granted"
    /\ SendGateOutcome(request) = "Unauthenticated"

PrivatePrefixes == {"172.", "192.168.", "10."}

BeginsPrivate(ip) ==
    \E p \in PrivatePrefixes : Len(ip) >= Len(p) /\ SubSeq(ip, 1, Len(p)) = p

LocalhostListed == \E i \in 1..Len(get_allowed_ips(environ)) : get_allowed_ips(environ)[i] = "127.0.0.1"

\* the request passed the key check of the mail-send action
PassedKeyCheck == Handled("/send-email") /\ (KeyConfigured => KeyMatches)

\* some entry of the allowlist matches the candidate
SomeEntryMatches(client_ip) ==
    \E i \in 1..Len(get_allowed_ips(environ)) :
        MatchEntry(NormalizeLocalhost(client_ip), get_allowed_ips(environ)[i]) = "match"

\* C5: for a request that passed the key check, when 127.0.0.1 is an entry of
\* the allowlist every client IP beginning with 172., 192.168. or 10. is
\* granted, also when no entry matches it, and the matcher is not consulted.
C5_PrivateException ==
    (PassedKeyCheck /\ LocalhostListed /\ BeginsPrivate(gate.client_ip))
        => /\ gate.outcome = "granted"
           /\ ~gate.matcher
           /\ "verify_ip_address" \notin EventNames

C5_Witness ==
    /\ PassedKeyCheck
    /\ LocalhostListed
    /\ gate.client_ip = "172.17.0.3"
    /\ ~SomeEntryMatches(gate.client_ip)
    /\ gate.outcome = "granted"

\* C6: for a request that passed the key check and outside the private-network
\* exception, the gate grants iff the allowlist is empty or some entry matches
\* the resolved client IP; otherwise the answer is 403 and its detail carries
\* exactly the resolved client IP.
C6_GrantIffAllowed ==
    (PassedKeyCheck /\ ~(LocalhostListed /\ BeginsPrivate(gate.client_ip)))
        => /\ (gate.outcome = "granted")
                <=> (get_allowed_ips(environ) = <<>> \/ SomeEntryMatches(gate.client_ip))
           /\ gate.outcome # "granted"
                => /\ gate.outcome = "Forbidden"
                   /\ response.status_code = 403
                   /\ response.detail = "Acceso denegado. Tu IP (" \o gate.client_ip
                        \o ") no esta en la lista de IPs permitidas."
                   /\ EventNames \cap MailCalls = {}

\* ::1 is rejected and the detail names ::1, not its normalised form
C6_Witness ==
    /\ PassedKeyCheck
    /\ get_allowed_ips(environ) = <<"8.8.8.0/24", "8.8.8.0/24">>
    /\ gate.client_ip = "::1"
    /\ response.status_code = 403

(***************************************************************************)
(* Properties of the matcher (SpecMatcher)                                 *)
(***************************************************************************)
Allowed == get_allowed_ips(environ)

\* ::1 and localhost stand for 127.0.0.1
Norm(x) == IF x \in {"::1", "localhost"} THEN "127.0.0.1" ELSE x

\* the packed address as a 128-bit quantity
Pad16(octets) ==
    [k \in 1..16 |-> IF k <= 16 - Len(octets) THEN 0 ELSE octets[k - (16 - Len(octets))]]

\* int(a) <= int(b)
IntLeq(a, b) ==
    LET x == Pad16(a)
        y == Pad16(b)
    IN  x = y \/ \E k \in 1..16 : x[k] < y[k] /\ \A j \in 1..(k - 1) : x[j] = y[j]

ValidCidr(e) == HasChar(e, "/") /\ ip_network(e).ok

\* the address written in a CIDR entry, host bits included
CidrAddress(e) == ip_address(split(e, "/")[1]).octets

CidrNetworkAddress(e) ==
    LET a == CidrAddress(e)
        p == ip_network(e).prefixlen
    IN  [k \in 1..Len(a) |-> (a[k] \div Pow2(8 - MaskBits(p, k))) * Pow2(8 - MaskBits(p, k))]

CidrBroadcastAddress(e) ==
    LET n == CidrNetworkAddress(e)
        p == ip_network(e).prefixlen
    IN  [k \in 1..Len(n) |-> n[k] + Pow2(8 - MaskBits(p, k)) - 1]

\* the integer of the address lies within [network address, broadcast address]
\* of the range, both taken in the address family of the range
InRange(octets, e) ==
    /\ Len(octets) = Len(CidrAddress(e))
    /\ IntLeq(CidrNetworkAddress(e), octets)
    /\ IntLeq(octets, CidrBroadcastAddress(e))

\* C7 as stated: for a valid CIDR entry and a candidate that is a valid IP the
\* matcher returns true iff the candidate's integer address lies within
\* [network address, broadcast address]; a candidate that is no IP address
\* never matches a CIDR entry.
C7_Original ==
    probe.called =>
        \A i \in 1..Len(probe.outcomes) :
            ValidCidr(Allowed[i]) =>
                IF ip_address(probe.client_ip).ok
                THEN (probe.outcomes[i] = "match")
                        <=> InRange(ip_address(probe.client_ip).octets, Allowed[i])
                ELSE probe.outcomes[i] # "match"

\* C7 amended: for a valid CIDR entry (host bits masked off) and any candidate,
\* the matcher returns true iff the candidate, with ::1 and localhost replaced
\* by 127.0.0.1, is a valid IP address of the IP version of the range whose
\* integer address lies within [network address, broadcast address]; a
\* candidate whose replaced form is no IP address never matches.
C7_CidrMatch ==
    probe.called =>
        \A i \in 1..Len(probe.outcomes) :
            ValidCidr(Allowed[i]) =>
                ((probe.outcomes[i] = "match")
                    <=> /\ ip_address(Norm(probe.client_ip)).ok
                        /\ InRange(ip_address(Norm(probe.client_ip)).octets, Allowed[i]))

\* an entry written with host bits set matches an address of its network
C7_Witness ==
    /\ probe.called
    /\ Allowed = <<"8.8.8.77/24">>
    /\ probe.client_ip = "8.8.8.8"
    /\ probe.outcomes = <<"match">>

\* C8: for an entry e without "/" and a candidate c the matcher matches iff
\* norm(c) = norm(e), where norm maps ::1 and localhost to 127.0.0.1.
C8_LiteralMatch ==
    probe.called =>
        \A i \in 1..Len(probe.outcomes) :
            ~HasChar(Allowed[i], "/") =>
                ((probe.outcomes[i] = "match") <=> Norm(probe.client_ip) = Norm(Allowed[i]))

Malformed(e) == ~ip_address(e).ok /\ ~ip_network(e).ok

RemoveAt(xs, i) == SubSeq(xs, 1, i - 1) \o SubSeq(xs, i + 1, Len(xs))

Without(i) == [environ EXCEPT !.ALLOWED_IPS = Some(join(",", RemoveAt(Allowed, i)))]

\* C9: an entry that parses neither as an IP address nor as a CIDR network
\* never matches, and the result with it equals the result on the allowlist
\* without it (when other entries remain).
C9_MalformedSkipped ==
    probe.called =>
        \A i \in 1..Len(Allowed) :
            Malformed(Allowed[i]) =>
                /\ (i <= Len(probe.outcomes) => probe.outcomes[i] # "match")
                /\ (Len(Allowed) > 1
                      => probe.ret = verify_ip_address(probe.client_ip, Without(i)).ret)

(***************************************************************************)
(* Properties of the client IP resolution (Spec)                           *)
(***************************************************************************)
\* the gate resolved a client IP for the request
Resolved ==
    /\ pc = "responded"
    /\ \/ gate.site = "dispatch"
       \/ gate.site = "verify_access" /\ "verify_access" \in EventNames

FirstForwarded(v) == strip(split(v, ",")[1])

PeerOrUnknown == IF request.client # None THEN request.client[1] ELSE "unknown"

\* C10 as stated: a present X-Real-IP header gives its trimmed value, else a
\* present X-Forwarded-For gives its first value trimmed, else the peer
\* address, else "unknown".
C10_Original ==
    Resolved =>
        gate.client_ip =
            IF request.x_real_ip # None THEN strip(request.x_real_ip[1])
            ELSE IF request.x_forwarded_for # None
                 THEN FirstForwarded(request.x_forwarded_for[1])
                 ELSE PeerOrUnknown

NonEmpty(h) == h # None /\ Len(h[1]) > 0

\* C10 amended: a header counts only when its value is not empty: a non-empty
\* X-Real-IP gives its trimmed value, else a non-empty X-Forwarded-For gives
\* its first value trimmed, else the peer address, else "unknown"; with both
\* non-empty X-Real-IP wins.
C10_Precedence ==
    Resolved =>
        gate.client_ip =
            IF NonEmpty(request.x_real_ip) THEN strip(request.x_real_ip[1])
            ELSE IF NonEmpty(request.x_forwarded_for)
                 THEN FirstForwarded(request.x_forwarded_for[1])
                 ELSE PeerOrUnknown

\* both headers and a peer: X-Real-IP wins, trimmed
C10_Witness ==
    /\ Resolved
    /\ request.x_real_ip = Some(" 8.8.8.8 ")
    /\ request.x_forwarded_for = Some("1.2.3.4, 10.0.0.9")
    /\ request.client # None
    /\ gate.client_ip = "8.8.8.8"

(***************************************************************************)
(* Properties of malformed client IPs (Spec)                               *)
(***************************************************************************)
\* the resolved client IP parses as an IPv4 or IPv6 address
WellFormedIp(ip) == ip_address(ip).ok

\* C11: whenever the allowlist is not empty, the gate never grants a request
\* whose resolved client IP is not a well-formed IP address, on the mail-send
\* action and on the documentation paths alike.
C11_MalformedNeverGranted ==
    (Resolved /\ get_allowed_ips(environ) # <<>> /\ ~WellFormedIp(gate.client_ip))
        => gate.outcome # "granted"

(***************************************************************************)
(* Properties of the order of the steps of one mail-send request (Spec)    *)
(***************************************************************************)
GateCalls == {"verify_api_key", "verify_access", "verify_ip_address"}

Denials == {"Unauthenticated", "Forbidden"}

\* C12: every denial (Unauthenticated, Forbidden) of a mail-send request is
\* decided and reported (401, 403) with no attachment decoding, no SMTP
\* configuration read and no connection made for that request, and in every
\* request the calls of the gate all precede the first call of the relay.
C12_DenialBeforeMail ==
    Handled("/send-email")
        => /\ gate.outcome \in Denials
                => /\ response.status_code = (IF gate.outcome = "Forbidden" THEN 403 ELSE 401)
                   /\ \A i \in 1..Len(events) : events[i][1] \notin MailCalls
                   /\ events[Len(events)][1] \in GateCalls
           /\ \A i, j \in 1..Len(events) :
                (events[i][1] \in MailCalls /\ events[j][1] \in GateCalls) => j < i

\* a denied request that carries an attachment and a valid body otherwise
C12_Witness ==
    /\ Handled("/send-email")
    /\ gate.outcome = "Forbidden"
    /\ request.body.attachments # <<>>
    /\ EmailRequest(request.body)
    /\ response.status_code = 403

(***************************************************************************)
(* Properties of the request schema (Spec)                                 *)
(***************************************************************************)
NoRecipients(body) == body.recipients = None \/ body.recipients[1] = <<>>

\* C13: send_email is never called from the mail-send action with an empty
\* list of recipients: a body whose recipients are empty or absent is answered
\* without any call of the relay.
C13_RecipientsNeverEmpty ==
    (request.path = "/send-email" /\ NoRecipients(request.body))
        => EventNames \cap MailCalls = {}

\* a granted request with recipients: [] stops at the schema
C13_Witness ==
    /\ Handled("/send-email")
    /\ gate.outcome = "granted"
    /\ request.body.recipients = Some(<<>>)
    /\ response.status_code = 422
    /\ "send_email" \notin EventNames

\* C14 as stated: a mail-send request with recipients: [] is rejected at
\* schema validation before the gate is reached: neither the key check nor
\* the IP check is executed and the answer is the schema rejection, whatever
\* key and client IP the request carries.
C14_Original ==
    (Handled("/send-email") /\ request.body.recipients = Some(<<>>))
        => /\ response.status_code = 422
           /\ EventNames \cap GateCalls = {}

\* C14 amended: for a mail-send request with recipients: [] the gate runs
\* first: the key check is always executed; a request the gate denies is
\* answered 401 or 403 and its body is not validated; a request the gate
\* grants is rejected at schema validation (422) after the key check and the
\* IP check, and the relay is not called.
C14_GateBeforeSchema ==
    (Handled("/send-email") /\ request.body.recipients = Some(<<>>))
        => /\ "verify_api_key" \in EventNames
           /\ gate.outcome \in Denials
                => /\ response.status_code \in {401, 403}
                   /\ "EmailRequest" \notin EventNames
           /\ gate.outcome = "granted"
                => /\ response.status_code = 422
                   /\ "verify_access" \in EventNames
                   /\ events[Len(events)][1] = "EmailRequest"
                   /\ EventNames \cap MailCalls = {}

\* recipients: [] with a wrong key: the answer is 401, not 422
C14_Witness ==
    /\ Handled("/send-email")
    /\ request.body.recipients = Some(<<>>)
    /\ KeyConfigured
    /\ request.x_api_key = Some("wrong")
    /\ response.status_code = 401

(***************************************************************************)
(* Properties of the relay (SpecRelay)                                     *)
(***************************************************************************)
\* sub occurs in s
Contains(s, sub) ==
    \E i \in 1..(Len(s) - Len(sub) + 1) : SubSeq(s, i, i + Len(sub) - 1) = sub

\* number of "=" that end s, at most 2
TrailingPads(s) ==
    IF Len(s) >= 2 /\ SubSeq(s, Len(s) - 1, Len(s)) = "==" THEN 2
    ELSE IF Len(s) >= 1 /\ CharAt(s, Len(s)) = "=" THEN 1 ELSE 0

\* base64 of RFC 4648: quads of characters of the alphabet, the last one
\* padded with at most two "="
ValidBase64(s) ==
    /\ Len(s) % 4 = 0
    /\ AllIn(SubSeq(s, 1, Len(s) - TrailingPads(s)), B64Chars)

BadAttachments ==
    {i \in 1..Len(request.body.attachments) :
        ~ValidBase64(request.body.attachments[i].content)}

Connects == {"SMTP", "SMTP_SSL"}

\* C15: an authorized mail-send request in which some attachment, at any
\* position, has a content that is not valid base64 is answered 400 with a
\* message that names that attachment's filename, and no SMTP connection is
\* opened for it.
C15_BadAttachmentRejected ==
    (Handled("/send-email") /\ gate.outcome = "granted" /\ BadAttachments # {})
        => /\ response.status_code = 400
           /\ \E i \in BadAttachments :
                Contains(response.detail, request.body.attachments[i].filename)
           /\ EventNames \cap Connects = {}

\* the configured port is 465
PortIs465 == environ.SMTP_PORT # None /\ strip(environ.SMTP_PORT[1]) = "465"

\* the TLS flag is set: SMTP_USE_TLS is absent (default true) or reads true
TlsFlagSet == environ.SMTP_USE_TLS = None \/ lower(environ.SMTP_USE_TLS[1]) = "true"

\* positions of the calls named name in the record of the request
Positions(name) == {i \in 1..Len(events) : events[i][1] = name}

\* every call named a precedes every call named b
Precedes(a, b) == \A i \in Positions(a), j \in Positions(b) : i < j

\* C16: with port 465 the relay opens an implicit-TLS connection and never
\* issues STARTTLS; with any other port it opens a plaintext connection and,
\* once connected, issues STARTTLS iff the TLS flag is set (default true).
\* STARTTLS precedes login, login precedes the transmission, and the message
\* is transmitted only right after a login that succeeded.
C16_TransportAndOrder ==
    (Handled("/send-email") /\ EventNames \cap Connects # {})
        => /\ IF PortIs465
              THEN /\ "SMTP_SSL" \in EventNames
                   /\ "SMTP" \notin EventNames
                   /\ "starttls" \notin EventNames
              ELSE /\ "SMTP" \in EventNames
                   /\ "SMTP_SSL" \notin EventNames
                   /\ "starttls" \in EventNames <=> (TlsFlagSet /\ "quit" \in EventNames)
           /\ Precedes("starttls", "login")
           /\ Precedes("login", "send_message")
           /\ \A i \in Positions("send_message") : i > 1 /\ events[i - 1][1] = "login"
           /\ \A i \in Positions("login") :
                i > 1 /\ events[i - 1][1] = (IF "starttls" \in EventNames THEN "starttls"
                                              ELSE IF PortIs465 THEN "SMTP_SSL" ELSE "SMTP")
           /\ response.status_code = 200 => "send_message" \in EventNames

\* port 465 with the TLS flag set: implicit TLS, no STARTTLS, the mail is sent
C16_Witness ==
    /\ Handled("/send-email")
    /\ environ.SMTP_PORT = Some("465")
    /\ environ.SMTP_USE_TLS = Some("true")
    /\ "SMTP_SSL" \in EventNames
    /\ "send_message" \in EventNames
    /\ response.status_code = 200

\* the texts of the exceptions that are neither a ValueError nor an SMTP error
UnanticipatedTexts == {b.text : b \in {x \in SmtpBehaviours : x.exc = "Exception"}}

\* C17: an unanticipated failure of the mail-send action is answered with a
\* generic internal error (500): the response carries no text of the
\* underlying exception, which appears in the server-side log only.
C17_GenericInternalError ==
    (Handled("/send-email") /\ response.status_code = 500)
        => /\ \A t \in UnanticipatedTexts : ~Contains(response.detail, t)
           /\ \E i \in Positions("logger.error"), t \in UnanticipatedTexts :
                Contains(events[i][2], t)

(***************************************************************************)
(* Properties of the private-network exception (Spec)                      *)
(***************************************************************************)
PrivateRanges == {"10.0.0.0/8", "172.16.0.0/12", "192.168.0.0/16"}

\* ip is an address inside one of the private ranges
InPrivateRange(ip) ==
    /\ ip_address(ip).ok
    /\ \E net \in PrivateRanges : NetworkContains(ip_network(net), ip_address(ip))

\* C18: when 127.0.0.1 is allowlisted, a resolved client IP that matches no
\* entry of the allowlist is granted only if it is an address inside
\* 10.0.0.0/8, 172.16.0.0/12 or 192.168.0.0/16: a public address or a string
\* that is no IP address is never granted by the exception.
C18_OnlyPrivateRanges ==
    (Resolved /\ LocalhostListed /\ gate.outcome = "granted"
        /\ ~SomeEntryMatches(gate.client_ip))
        => InPrivateRange(gate.client_ip)

(***************************************************************************)
(* The two copies of the IP logic (Spec)                                   *)
(***************************************************************************)
\* the same request sent to a documentation path
AsDocs(req) == [req EXCEPT !.path = "/docs"]

\* C19: leaving the key check aside, the two copies of the IP logic agree:
\* for every request the inline resolution of verify_access yields the client
\* IP get_client_ip yields, and for every allowlist the middleware lets the
\* request through iff verify_access returns; whichever copy handled the
\* request, the other one resolves the same client IP and decides the same.
C19_CopiesAgree ==
    Resolved
        => /\ ResolveClientIp(request) = get_client_ip(request)
           /\ gate.site = "dispatch"
                => /\ gate.client_ip = ResolveClientIp(request)
                   /\ (gate.outcome = "granted")
                        <=> ~verify_access(request, "key", environ).result.raised
           /\ gate.site = "verify_access"
                => /\ gate.client_ip = get_client_ip(request)
                   /\ (gate.outcome = "granted")
                        <=> ~dispatch(AsDocs(request), environ).blocked

\* the alias ::1 on a documentation path with 127.0.0.1 allowlisted
C19_Witness ==
    /\ Resolved
    /\ gate.site = "dispatch"
    /\ gate.client_ip = "::1"
    /\ get_allowed_ips(environ) = <<"127.0.0.1">>
    /\ gate.outcome = "granted"

====
